---- MODULE Spec2Model ----
(***************************************************************************)
(* Model of the tcommit template engines.                                  *)
(*                                                                         *)
(* Strings are sequences of one-character strings, positions are 0-based   *)
(* byte offsets as in Go, and Slice(s, lo, hi) is the Go slice s[lo:hi].   *)
(***************************************************************************)
EXTENDS Integers, Sequences, FiniteSets, TLC

VARIABLES
    data,     \* ParseString: the input text
    pos,      \* ParseString: the local pos
    nodes,    \* ParseString: the local nodes slice
    start,    \* ParseString: the local start of the last findNextTemplate call
    end,      \* ParseString: the local end of the last findNextTemplate call
    pstate,   \* ParseString: "parsing" while in the loop, then "ok" or "err"
    tmpl,     \* ParseString: the returned *Template (NilTemplate until it returns one)
    perr,     \* ParseString: the returned error
    pool,     \* the Replacers the callers hold
    th,       \* the callers: each one's position in its render calls and its locals
    lg,       \* the legacy engine: one Template, its background task and its caller
    cli,      \* the root command: its hooks, the viper keys and the git commands run
    form      \* the bubble command: the form's model and what the command does with it

vars == <<data, pos, nodes, start, end, pstate, tmpl, perr, pool, th, lg, cli, form>>

----------------------------------------------------------------------------
(* Bounds of the model *)

MaxFrags == 3
MaxParts == 3
NumCallers == 2
MaxLegacyFrags == 2
MaxParseCalls == 2
MaxReplaceFlags == 2
MaxMsgs == 3

----------------------------------------------------------------------------
(* Go string helpers *)

Slice(s, lo, hi) == SubSeq(s, lo + 1, hi)

HasPrefix(s, prefix) ==
    /\ Len(s) >= Len(prefix)
    /\ Slice(s, 0, Len(prefix)) = prefix

\* strings.Index: the offset of the first instance of substr in s, or -1
Index(s, substr) ==
    LET hits == {i \in 0..(Len(s) - Len(substr)) : Slice(s, i, i + Len(substr)) = substr}
    IN IF hits = {} THEN -1
       ELSE CHOOSE i \in hits : \A j \in hits : i <= j

WhiteSpace == {" ", "\t", "\n", "\r"}

RECURSIVE TrimLeft(_)
TrimLeft(s) ==
    IF s # <<>> /\ Head(s) \in WhiteSpace THEN TrimLeft(Tail(s)) ELSE s

RECURSIVE TrimRight(_)
TrimRight(s) ==
    IF s # <<>> /\ s[Len(s)] \in WhiteSpace THEN TrimRight(Slice(s, 0, Len(s) - 1)) ELSE s

TrimSpace(s) == TrimRight(TrimLeft(s))

\* strings.Split(s, sep) for a non-empty sep: always at least one part
RECURSIVE Split(_, _)
Split(s, sep) ==
    LET i == Index(s, sep)
    IN IF i < 0 THEN <<s>>
       ELSE <<Slice(s, 0, i)>> \o Split(Slice(s, i + Len(sep), Len(s)), sep)

----------------------------------------------------------------------------
(* Markers *)

openMarker == <<"{", "{">>
closeMarker == <<"}", "}">>
varPrefix == <<".">>
choiceSep == <<":">>
choiceDelim == <<"|">>
defPrefix == <<"@">>

----------------------------------------------------------------------------
(* Errors *)

NilErr == [kind |-> "nil"]

NewNoReplacementError(key) == [kind |-> "NoReplacement", key |-> key]

NewInvalidValueError(val, key, choices) ==
    [kind |-> "InvalidValue", key |-> key, val |-> val, choices |-> choices]

NewInvalidTokenSyntaxError(token) == [kind |-> "InvalidTokenSyntax", token |-> token]

----------------------------------------------------------------------------
(* Nodes *)

TextNode(text) == [type |-> "text", Text |-> text]

VarNode(key, choices, def, hasDef) ==
    [type |-> "var", Key |-> key, Choices |-> choices, Default |-> def, HasDef |-> hasDef]

NilTemplate == [nil |-> TRUE]

Template(ns) == [nil |-> FALSE, Nodes |-> ns]

\* A Replacer backed by a map: Get(key) -> (value, found)
ReplacerGet(r, key) ==
    IF key \in DOMAIN r THEN [val |-> r[key], found |-> TRUE]
    ELSE [val |-> <<>>, found |-> FALSE]

isValidChoice(v, val) == \E i \in 1..Len(v.Choices) : v.Choices[i] = val

\* The writers modelled (strings.Builder, bytes.Buffer) never fail a write.
TextNodeWriteTo(t, w, r) == [w |-> w \o t.Text, err |-> NilErr, gets |-> <<>>]

\* Mutant of VarNodeWriteTo: the choice check also applies to a default
VarNodeWriteToChecksDefault(v, w, r) ==
    LET g == ReplacerGet(r, v.Key)
        val == IF g.found THEN g.val ELSE IF v.HasDef THEN v.Default ELSE g.val
    IN IF ~g.found /\ ~v.HasDef
         THEN [w |-> w, err |-> NewNoReplacementError(v.Key), gets |-> <<v.Key>>]
       ELSE IF Len(v.Choices) > 0 /\ ~isValidChoice(v, val)
         THEN [w |-> w, err |-> NewInvalidValueError(val, v.Key, v.Choices), gets |-> <<v.Key>>]
       ELSE [w |-> w \o val, err |-> NilErr, gets |-> <<v.Key>>]

\* Mutant of VarNodeWriteTo: a key that is not found fails even when a default is present
VarNodeWriteToIgnoresDefault(v, w, r) ==
    LET g == ReplacerGet(r, v.Key)
    IN IF ~g.found
         THEN [w |-> w, err |-> NewNoReplacementError(v.Key), gets |-> <<v.Key>>]
       ELSE IF Len(v.Choices) > 0 /\ ~isValidChoice(v, g.val)
         THEN [w |-> w, err |-> NewInvalidValueError(g.val, v.Key, v.Choices), gets |-> <<v.Key>>]
       ELSE [w |-> w \o g.val, err |-> NilErr, gets |-> <<v.Key>>]

\* Mutant of VarNodeWriteTo: an empty default counts as no default
VarNodeWriteToEmptyDefaultIsNone(v, w, r) ==
    LET g == ReplacerGet(r, v.Key)
        val == IF g.found THEN g.val ELSE v.Default
    IN IF ~g.found /\ v.Default = <<>>
         THEN [w |-> w, err |-> NewNoReplacementError(v.Key), gets |-> <<v.Key>>]
       ELSE IF Len(v.Choices) > 0 /\ g.found /\ ~isValidChoice(v, val)
         THEN [w |-> w, err |-> NewInvalidValueError(val, v.Key, v.Choices), gets |-> <<v.Key>>]
       ELSE [w |-> w \o val, err |-> NilErr, gets |-> <<v.Key>>]

VarNodeWriteTo(v, w, r) ==
    LET g == ReplacerGet(r, v.Key)
        val == IF g.found THEN g.val ELSE IF v.HasDef THEN v.Default ELSE g.val
    IN IF ~g.found /\ ~v.HasDef
         THEN [w |-> w, err |-> NewNoReplacementError(v.Key), gets |-> <<v.Key>>]
       ELSE IF Len(v.Choices) > 0 /\ g.found /\ ~isValidChoice(v, val)
         THEN [w |-> w, err |-> NewInvalidValueError(val, v.Key, v.Choices), gets |-> <<v.Key>>]
       ELSE [w |-> w \o val, err |-> NilErr, gets |-> <<v.Key>>]

\* Node.WriteTo, dispatched on the node's type
WriteTo(n, w, r) ==
    IF n.type = "text" THEN TextNodeWriteTo(n, w, r) ELSE VarNodeWriteTo(n, w, r)

----------------------------------------------------------------------------
(* Parsing *)

\* Mutant of findNextTemplate: an opening marker with no closing marker runs to the
\* end of the input
findNextTemplateOpenEnded(d, startPos) ==
    LET o == Index(Slice(d, startPos, Len(d)), openMarker)
        openPos == o + startPos
        c == Index(Slice(d, openPos + Len(openMarker), Len(d)), closeMarker)
        closePos == c + openPos + Len(openMarker)
    IN IF o < 0 THEN [start |-> 0, end |-> 0, found |-> FALSE]
       ELSE IF c < 0
         THEN [start |-> openPos, end |-> Len(d) + Len(closeMarker), found |-> TRUE]
       ELSE [start |-> openPos, end |-> closePos + Len(closeMarker), found |-> TRUE]

\* Mutant of findNextTemplate: the closing marker is searched from the start of the
\* input, not from behind the opening marker
findNextTemplateAnyCloser(d, startPos) ==
    LET o == Index(Slice(d, startPos, Len(d)), openMarker)
        openPos == o + startPos
        closePos == Index(d, closeMarker)
    IN IF o < 0 THEN [start |-> 0, end |-> 0, found |-> FALSE]
       ELSE IF closePos < 0 THEN [start |-> 0, end |-> 0, found |-> FALSE]
       ELSE [start |-> openPos, end |-> closePos + Len(closeMarker), found |-> TRUE]

\* Mutant of findNextTemplate: the last closing marker of the input closes the marker
findNextTemplateGreedy(d, startPos) ==
    LET o == Index(Slice(d, startPos, Len(d)), openMarker)
        openPos == o + startPos
        hits == {i \in (openPos + Len(openMarker))..(Len(d) - Len(closeMarker)) :
                    Slice(d, i, i + Len(closeMarker)) = closeMarker}
        closePos == CHOOSE i \in hits : \A n \in hits : n <= i
    IN IF o < 0 THEN [start |-> 0, end |-> 0, found |-> FALSE]
       ELSE IF hits = {} THEN [start |-> 0, end |-> 0, found |-> FALSE]
       ELSE [start |-> openPos, end |-> closePos + Len(closeMarker), found |-> TRUE]

findNextTemplate(d, startPos) ==
    LET o == Index(Slice(d, startPos, Len(d)), openMarker)
        openPos == o + startPos
        c == Index(Slice(d, openPos + Len(openMarker), Len(d)), closeMarker)
        closePos == c + openPos + Len(openMarker)
    IN IF o < 0 THEN [start |-> 0, end |-> 0, found |-> FALSE]
       ELSE IF c < 0 THEN [start |-> 0, end |-> 0, found |-> FALSE]
       ELSE [start |-> openPos, end |-> closePos + Len(closeMarker), found |-> TRUE]

\* Mutant of parseParts: the default is also appended to the choices
RECURSIVE parsePartsDefIsChoice(_, _)
parsePartsDefIsChoice(parts, acc) ==
    IF parts = <<>> THEN acc
    ELSE LET p == TrimSpace(Head(parts))
         IN IF HasPrefix(p, defPrefix)
              THEN parsePartsDefIsChoice(Tail(parts),
                      [acc EXCEPT !.def = Slice(p, Len(defPrefix), Len(p)),
                                  !.hasDef = TRUE,
                                  !.choices = Append(@, Slice(p, Len(defPrefix), Len(p)))])
              ELSE parsePartsDefIsChoice(Tail(parts), [acc EXCEPT !.choices = Append(@, p)])

\* Mutant of parseParts: empty parts are skipped
RECURSIVE parsePartsSkipsEmpty(_, _)
parsePartsSkipsEmpty(parts, acc) ==
    IF parts = <<>> THEN acc
    ELSE LET p == TrimSpace(Head(parts))
         IN IF p = <<>> THEN parsePartsSkipsEmpty(Tail(parts), acc)
            ELSE IF HasPrefix(p, defPrefix)
              THEN parsePartsSkipsEmpty(Tail(parts),
                      [acc EXCEPT !.def = Slice(p, Len(defPrefix), Len(p)),
                                  !.hasDef = TRUE])
              ELSE parsePartsSkipsEmpty(Tail(parts), [acc EXCEPT !.choices = Append(@, p)])

\* The loop over parts in parseToken: acc is <<def, hasDef, choices>>
RECURSIVE parseParts(_, _)
parseParts(parts, acc) ==
    IF parts = <<>> THEN acc
    ELSE LET p == TrimSpace(Head(parts))
         IN IF HasPrefix(p, defPrefix)
              THEN parseParts(Tail(parts),
                              [acc EXCEPT !.def = Slice(p, Len(defPrefix), Len(p)),
                                          !.hasDef = TRUE])
              ELSE parseParts(Tail(parts), [acc EXCEPT !.choices = Append(@, p)])

\* Mutant of parseToken: the sigil is looked for in the untrimmed token
parseTokenNoTrim(token) ==
    LET body == Slice(token, Len(varPrefix), Len(token))
        idx == Index(body, choiceSep)
        acc0 == [def |-> <<>>, hasDef |-> FALSE, choices |-> <<>>]
    IN IF ~HasPrefix(token, varPrefix)
         THEN [node |-> NilTemplate, err |-> NewInvalidTokenSyntaxError(token)]
       ELSE IF idx >= 0
         THEN LET key == TrimSpace(Slice(body, 0, idx))
                  rest == Slice(body, idx + Len(choiceSep), Len(body))
                  acc == parseParts(Split(rest, choiceDelim), acc0)
              IN [node |-> VarNode(key, acc.choices, acc.def, acc.hasDef), err |-> NilErr]
       ELSE [node |-> VarNode(TrimSpace(body), <<>>, <<>>, FALSE), err |-> NilErr]

parseToken(token) ==
    LET t == TrimSpace(token)
        body == Slice(t, Len(varPrefix), Len(t))
        idx == Index(body, choiceSep)
        acc0 == [def |-> <<>>, hasDef |-> FALSE, choices |-> <<>>]
    IN IF ~HasPrefix(t, varPrefix)
         THEN [node |-> NilTemplate, err |-> NewInvalidTokenSyntaxError(token)]
       ELSE IF idx >= 0
         THEN LET key == TrimSpace(Slice(body, 0, idx))
                  rest == Slice(body, idx + Len(choiceSep), Len(body))
                  acc == parseParts(Split(rest, choiceDelim), acc0)
              IN [node |-> VarNode(key, acc.choices, acc.def, acc.hasDef), err |-> NilErr]
       ELSE [node |-> VarNode(TrimSpace(body), <<>>, <<>>, FALSE), err |-> NilErr]

\* One iteration of the loop of ParseString, with the return that ends it
ParseStep ==
    /\ pstate = "parsing"
    /\ LET f == findNextTemplate(data, pos)
           withText == IF f.start > pos
                         THEN Append(nodes, TextNode(Slice(data, pos, f.start)))
                         ELSE nodes
           res == parseToken(Slice(data, f.start + Len(openMarker), f.end - Len(closeMarker)))
       IN /\ start' = f.start
          /\ end' = f.end
          /\ IF ~f.found
               THEN LET final == IF Len(Slice(data, pos, Len(data))) > 0
                                   THEN Append(nodes, TextNode(Slice(data, pos, Len(data))))
                                   ELSE nodes
                    IN /\ nodes' = final
                       /\ tmpl' = Template(final)
                       /\ pstate' = "ok"
                       /\ UNCHANGED <<pos, perr>>
             ELSE IF res.err # NilErr
               THEN /\ nodes' = withText
                    /\ perr' = res.err
                    /\ pstate' = "err"
                    /\ UNCHANGED <<pos, tmpl>>
             ELSE /\ nodes' = Append(withText, res.node)
                  /\ pos' = f.end
                  /\ UNCHANGED <<pstate, tmpl, perr>>
    /\ UNCHANGED <<data, pool, th, lg, cli, form>>

----------------------------------------------------------------------------
(* Rendering: each caller renders the parsed Template with Execute and then *)
(* with ExecuteTo into a fresh buffer, using one Replacer for both calls.   *)

ThreadInit ==
    [pc |-> "idle", r |-> <<>>, i |-> 0, out |-> <<>>, got |-> <<>>, gotErr |-> NilErr,
     sink |-> <<>>, sinkErr |-> NilErr, gets |-> <<>>]

CallExecute(t, r) ==
    /\ pstate = "ok"
    /\ th[t].pc = "idle"
    /\ th' = [th EXCEPT ![t] = [@ EXCEPT !.pc = "Execute", !.r = r, !.i = 0,
                                         !.out = <<>>, !.gets = <<>>]]
    /\ UNCHANGED <<data, pos, nodes, start, end, pstate, tmpl, perr, pool, lg, cli, form>>

\* Mutant of ExecuteStep: a failing Execute returns what it has built so far
ExecuteStepKeepsPartial(t) ==
    /\ th[t].pc = "Execute"
    /\ IF th[t].i < Len(tmpl.Nodes)
         THEN LET res == WriteTo(tmpl.Nodes[th[t].i + 1], th[t].out, th[t].r)
              IN IF res.err # NilErr
                   THEN th' = [th EXCEPT ![t] = [@ EXCEPT !.pc = "ExecuteDone",
                                                          !.got = th[t].out,
                                                          !.gotErr = res.err,
                                                          !.gets = @ \o res.gets]]
                   ELSE th' = [th EXCEPT ![t] = [@ EXCEPT !.out = res.w,
                                                          !.i = @ + 1,
                                                          !.gets = @ \o res.gets]]
         ELSE th' = [th EXCEPT ![t] = [@ EXCEPT !.pc = "ExecuteDone",
                                                !.got = th[t].out,
                                                !.gotErr = NilErr]]
    /\ UNCHANGED <<data, pos, nodes, start, end, pstate, tmpl, perr, pool, lg, cli, form>>

\* Mutant of ExecuteStep: a rendered variable node is replaced in the Template by
\* the text it rendered to
ExecuteStepMemoizes(t) ==
    /\ th[t].pc = "Execute"
    /\ IF th[t].i < Len(tmpl.Nodes)
         THEN LET res == WriteTo(tmpl.Nodes[th[t].i + 1], <<>>, th[t].r)
              IN IF res.err # NilErr
                   THEN /\ th' = [th EXCEPT ![t] = [@ EXCEPT !.pc = "ExecuteDone",
                                                             !.got = <<>>,
                                                             !.gotErr = res.err,
                                                             !.gets = @ \o res.gets]]
                        /\ tmpl' = tmpl
                   ELSE /\ th' = [th EXCEPT ![t] = [@ EXCEPT !.out = @ \o res.w,
                                                             !.i = @ + 1,
                                                             !.gets = @ \o res.gets]]
                        /\ tmpl' = [tmpl EXCEPT !.Nodes[th[t].i + 1] = TextNode(res.w)]
         ELSE /\ th' = [th EXCEPT ![t] = [@ EXCEPT !.pc = "ExecuteDone",
                                                   !.got = th[t].out,
                                                   !.gotErr = NilErr]]
              /\ tmpl' = tmpl
    /\ UNCHANGED <<data, pos, nodes, start, end, pstate, perr, pool, lg, cli, form>>

\* One iteration of the loop of Execute, or the return after the last node
ExecuteStep(t) ==
    /\ th[t].pc = "Execute"
    /\ IF th[t].i < Len(tmpl.Nodes)
         THEN LET res == WriteTo(tmpl.Nodes[th[t].i + 1], th[t].out, th[t].r)
              IN IF res.err # NilErr
                   THEN th' = [th EXCEPT ![t] = [@ EXCEPT !.pc = "ExecuteDone",
                                                          !.got = <<>>,
                                                          !.gotErr = res.err,
                                                          !.gets = @ \o res.gets]]
                   ELSE th' = [th EXCEPT ![t] = [@ EXCEPT !.out = res.w,
                                                          !.i = @ + 1,
                                                          !.gets = @ \o res.gets]]
         ELSE th' = [th EXCEPT ![t] = [@ EXCEPT !.pc = "ExecuteDone",
                                                !.got = th[t].out,
                                                !.gotErr = NilErr]]
    /\ UNCHANGED <<data, pos, nodes, start, end, pstate, tmpl, perr, pool, lg, cli, form>>

CallExecuteTo(t) ==
    /\ th[t].pc = "ExecuteDone"
    /\ th' = [th EXCEPT ![t] = [@ EXCEPT !.pc = "ExecuteTo", !.i = 0,
                                         !.sink = <<>>, !.gets = <<>>]]
    /\ UNCHANGED <<data, pos, nodes, start, end, pstate, tmpl, perr, pool, lg, cli, form>>

\* Mutant of ExecuteToStep: a failing node is skipped and rendering goes on
ExecuteToStepSkipsFailure(t) ==
    /\ th[t].pc = "ExecuteTo"
    /\ IF th[t].i < Len(tmpl.Nodes)
         THEN LET res == WriteTo(tmpl.Nodes[th[t].i + 1], th[t].sink, th[t].r)
              IN th' = [th EXCEPT ![t] = [@ EXCEPT !.sink = res.w,
                                                   !.i = @ + 1,
                                                   !.gets = @ \o res.gets]]
         ELSE th' = [th EXCEPT ![t] = [@ EXCEPT !.pc = "done", !.sinkErr = NilErr]]
    /\ UNCHANGED <<data, pos, nodes, start, end, pstate, tmpl, perr, pool, lg, cli, form>>

\* One iteration of the loop of ExecuteTo, or the return after the last node
ExecuteToStep(t) ==
    /\ th[t].pc = "ExecuteTo"
    /\ IF th[t].i < Len(tmpl.Nodes)
         THEN LET res == WriteTo(tmpl.Nodes[th[t].i + 1], th[t].sink, th[t].r)
              IN IF res.err # NilErr
                   THEN th' = [th EXCEPT ![t] = [@ EXCEPT !.pc = "done",
                                                          !.sinkErr = res.err,
                                                          !.gets = @ \o res.gets]]
                   ELSE th' = [th EXCEPT ![t] = [@ EXCEPT !.sink = res.w,
                                                          !.i = @ + 1,
                                                          !.gets = @ \o res.gets]]
         ELSE th' = [th EXCEPT ![t] = [@ EXCEPT !.pc = "done", !.sinkErr = NilErr]]
    /\ UNCHANGED <<data, pos, nodes, start, end, pstate, tmpl, perr, pool, lg, cli, form>>

\* The caller drops its results and is ready to render again
Finish(t) ==
    /\ th[t].pc = "done"
    /\ th' = [th EXCEPT ![t] = ThreadInit]
    /\ UNCHANGED <<data, pos, nodes, start, end, pstate, tmpl, perr, pool, lg, cli, form>>

----------------------------------------------------------------------------
(* The legacy engine: a regular expression, a background task and a channel *)

WordChars ==
    { "a", "b", "c", "d", "e", "f", "g", "h", "i", "j", "k", "l", "m",
      "n", "o", "p", "q", "r", "s", "t", "u", "v", "w", "x", "y", "z",
      "A", "B", "C", "D", "E", "F", "G", "H", "I", "J", "K", "L", "M",
      "N", "O", "P", "Q", "R", "S", "T", "U", "V", "W", "X", "Y", "Z",
      "0", "1", "2", "3", "4", "5", "6", "7", "8", "9", "_" }

ReSpace == {"\t", "\n", "\f", "\r", " "}

\* The length of the longest run of \w from offset i of d
RECURSIVE WordRun(_, _)
WordRun(d, i) == IF i < Len(d) /\ d[i + 1] \in WordChars THEN 1 + WordRun(d, i + 1) ELSE 0

\* The length of the longest run of [^}] from offset i of d
RECURSIVE NonBraceRun(_, _)
NonBraceRun(d, i) == IF i < Len(d) /\ d[i + 1] # "}" THEN 1 + NonBraceRun(d, i + 1) ELSE 0

\* The length of the longest run of \s from offset i of d
RECURSIVE SpaceRun(_, _)
SpaceRun(d, i) == IF i < Len(d) /\ d[i + 1] \in ReSpace THEN 1 + SpaceRun(d, i + 1) ELSE 0

\* Group 2 of placeholderRe for the text x between ':' and '}}': \s* is greedy but
\* leaves [^}]+ at least one character
reParams(x) ==
    LET sp == SpaceRun(x, 0)
    IN IF sp = Len(x) THEN Slice(x, Len(x) - 1, Len(x)) ELSE Slice(x, sp, Len(x))

NoMatch == [ok |-> FALSE, end |-> 0, key |-> <<>>, params |-> <<>>]

\* placeholderRe anchored at offset i of d: \{\{\.(\w+)(?::\s*([^}]+))?\}\}
placeholderReAt(d, i) ==
    LET kLen == WordRun(d, i + 3)
        kEnd == i + 3 + kLen
        xLen == NonBraceRun(d, kEnd + 1)
        xEnd == kEnd + 1 + xLen
        key == Slice(d, i + 3, kEnd)
    IN IF ~HasPrefix(Slice(d, i, Len(d)), <<"{", "{", ".">>) \/ kLen = 0 THEN NoMatch
       ELSE IF /\ HasPrefix(Slice(d, kEnd, Len(d)), <<":">>)
               /\ xLen > 0
               /\ HasPrefix(Slice(d, xEnd, Len(d)), <<"}", "}">>)
         THEN [ok |-> TRUE, end |-> xEnd + 2, key |-> key,
               params |-> reParams(Slice(d, kEnd + 1, xEnd))]
       ELSE IF HasPrefix(Slice(d, kEnd, Len(d)), <<"}", "}">>)
         THEN [ok |-> TRUE, end |-> kEnd + 2, key |-> key, params |-> <<>>]
       ELSE NoMatch

\* The loop of parseParams: acc is <<allowed, def>>
RECURSIVE parseParamsLoop(_, _)
parseParamsLoop(parts, acc) ==
    IF parts = <<>> THEN acc
    ELSE LET p == TrimSpace(Head(parts))
         IN IF p = <<>> THEN parseParamsLoop(Tail(parts), acc)
            ELSE IF HasPrefix(p, <<"@">>)
              THEN parseParamsLoop(Tail(parts), [acc EXCEPT !.def = Slice(p, 1, Len(p))])
            ELSE parseParamsLoop(Tail(parts), [acc EXCEPT !.allowed = Append(@, p)])

parseParams(params) ==
    parseParamsLoop(Split(params, <<"|">>), [allowed |-> <<>>, def |-> <<>>])

contains(slice, val) == \E i \in 1..Len(slice) : slice[i] = val

\* The function Template.parse passes to ReplaceAllFunc, for one match
replaceMatch(mt, replacements) ==
    LET pp == parseParams(mt.params)
        exists == mt.key \in DOMAIN replacements
        value == IF exists THEN replacements[mt.key] ELSE pp.def
    IN IF ~exists /\ pp.def = <<>> THEN [panic |-> TRUE, out |-> <<>>]
       ELSE IF Len(pp.allowed) > 0 /\ ~contains(pp.allowed, value)
         THEN [panic |-> TRUE, out |-> <<>>]
       ELSE [panic |-> FALSE, out |-> value]

\* placeholderRe.ReplaceAllFunc from offset p on: the leftmost matches, left to right
RECURSIVE ReplaceAllFunc(_, _, _)
ReplaceAllFunc(d, p, replacements) ==
    LET hits == {i \in p..Len(d) : placeholderReAt(d, i).ok}
    IN IF hits = {} THEN [panic |-> FALSE, out |-> Slice(d, p, Len(d))]
       ELSE LET i == CHOOSE x \in hits : \A y \in hits : x <= y
                mt == placeholderReAt(d, i)
                one == replaceMatch(mt, replacements)
                rest == ReplaceAllFunc(d, mt.end, replacements)
            IN IF one.panic THEN [panic |-> TRUE, out |-> <<>>]
               ELSE IF rest.panic THEN [panic |-> TRUE, out |-> <<>>]
               ELSE [panic |-> FALSE, out |-> Slice(d, p, i) \o one.out \o rest.out]

\* The capacity of Template.rendered
RenderedCap == 1

LegacyOff ==
    [content |-> <<>>, replacements |-> <<>>, rendered |-> <<>>, task |-> "off",
     result |-> <<>>, caller |-> "off", calls |-> 0, readers |-> <<>>]

\* The Template and the goroutine that New returns with
New(content, replacements) ==
    [content |-> content, replacements |-> replacements, rendered |-> <<>>,
     task |-> "parse", result |-> <<>>, caller |-> "idle", calls |-> 0, readers |-> <<>>]

\* Template.parse up to its send: the substitution, which panics or yields result.
\* A panic in the goroutine ends the process.
LegacyParse ==
    /\ lg.task = "parse"
    /\ LET res == ReplaceAllFunc(lg.content, 0, lg.replacements)
       IN IF res.panic
            THEN lg' = [lg EXCEPT !.task = "panicked"]
            ELSE lg' = [lg EXCEPT !.task = "send", !.result = res.out]
    /\ UNCHANGED <<data, pos, nodes, start, end, pstate, tmpl, perr, pool, th, cli, form>>

\* Template.parse: t.rendered <- result, which blocks while the buffer is full
LegacySend ==
    /\ lg.task = "send"
    /\ Len(lg.rendered) < RenderedCap
    /\ lg' = [lg EXCEPT !.rendered = Append(@, lg.result), !.task = "done"]
    /\ UNCHANGED <<data, pos, nodes, start, end, pstate, tmpl, perr, pool, th, cli, form>>

\* The caller enters Template.Parse
CallParse ==
    /\ lg.caller = "idle"
    /\ lg.task # "panicked"
    /\ lg.calls < MaxParseCalls
    /\ lg' = [lg EXCEPT !.caller = "recv", !.calls = @ + 1]
    /\ UNCHANGED <<data, pos, nodes, start, end, pstate, tmpl, perr, pool, th, cli, form>>

\* Mutant of ParseRecv: the receive does not wait, and yields no bytes when the
\* channel is empty
ParseRecvNoWait ==
    /\ lg.caller = "recv"
    /\ lg.task # "panicked"
    /\ IF lg.rendered # <<>>
         THEN lg' = [lg EXCEPT !.rendered = Tail(@),
                               !.readers = Append(@, Head(lg.rendered)),
                               !.caller = "idle"]
         ELSE lg' = [lg EXCEPT !.readers = Append(@, <<>>), !.caller = "idle"]
    /\ UNCHANGED <<data, pos, nodes, start, end, pstate, tmpl, perr, pool, th, cli, form>>

\* Template.Parse: data := <-t.rendered, and the return of a reader over data
ParseRecv ==
    /\ lg.caller = "recv"
    /\ lg.task # "panicked"
    /\ lg.rendered # <<>>
    /\ lg' = [lg EXCEPT !.rendered = Tail(@), !.readers = Append(@, Head(lg.rendered)),
                        !.caller = "idle"]
    /\ UNCHANGED <<data, pos, nodes, start, end, pstate, tmpl, perr, pool, th, cli, form>>

----------------------------------------------------------------------------
(* The root command: its three hooks and the git package *)

\* strings.SplitN(rep, "=", 2)
SplitN2(rep) ==
    LET i == Index(rep, <<"=">>)
    IN IF i < 0 THEN <<rep>>
       ELSE <<Slice(rep, 0, i), Slice(rep, i + 1, Len(rep))>>

\* The loop of parseReplacements: acc is the map built so far
RECURSIVE parseReplacementsLoop(_, _)
parseReplacementsLoop(replaceFlags, acc) ==
    IF replaceFlags = <<>> THEN [map |-> acc, err |-> FALSE]
    ELSE LET parts == SplitN2(Head(replaceFlags))
         IN IF Len(parts) # 2 THEN [map |-> <<>>, err |-> TRUE]
            ELSE IF TrimSpace(parts[1]) = <<>> THEN [map |-> <<>>, err |-> TRUE]
            ELSE parseReplacementsLoop(Tail(replaceFlags),
                                       (TrimSpace(parts[1]) :> TrimSpace(parts[2])) @@ acc)

parseReplacements(replaceFlags) == parseReplacementsLoop(replaceFlags, <<>>)

NoError == <<>>

CliOff ==
    [pc |-> "off", replace |-> <<>>, execute |-> FALSE, file |-> <<>>, opens |-> FALSE,
     replacements |-> <<>>, message |-> <<>>, stdout |-> <<>>, within |-> "none",
     arg |-> <<>>, log |-> <<>>, err |-> NoError]

\* The process as cobra enters the root command: the flags and the template file
RootStart(replaceFlags, execute, file, opens) ==
    [CliOff EXCEPT !.pc = "PersistentPreRunE", !.replace = replaceFlags,
                   !.execute = execute, !.file = file, !.opens = opens]

\* A hook returns err, and cobra runs no later hook
Exit(c, err) == [c EXCEPT !.pc = "exit", !.err = err]

PersistentPreRunE ==
    /\ cli.pc = "PersistentPreRunE"
    /\ LET res == parseReplacements(cli.replace)
       IN IF res.err
            THEN cli' = Exit(cli, <<"invalid replacements">>)
            ELSE cli' = [cli EXCEPT !.pc = "RunE", !.replacements = res.map,
                                    !.message = <<>>]
    /\ UNCHANGED <<data, pos, nodes, start, end, pstate, tmpl, perr, pool, th, lg, form>>

\* RunE up to processTemplate's call of template.Parse: the file is opened and read
RunE ==
    /\ cli.pc = "RunE"
    /\ IF cli.opens
         THEN /\ cli' = [cli EXCEPT !.pc = "processTemplate"]
              /\ data' = cli.file
              /\ pstate' = "parsing"
         ELSE /\ cli' = Exit(cli, <<"failed to open template file">>)
              /\ UNCHANGED <<data, pstate>>
    /\ UNCHANGED <<pos, nodes, start, end, tmpl, perr, pool, th, lg, form>>

\* processTemplate after template.Parse has returned: its error, or the call of
\* ExecuteTo on a strings.Builder with the Replacer of the map
processTemplate ==
    /\ cli.pc = "processTemplate"
    /\ pstate \in {"ok", "err"}
    /\ IF pstate = "err"
         THEN /\ cli' = Exit(cli, <<"failed to parse template">>)
              /\ th' = th
         ELSE /\ cli' = [cli EXCEPT !.pc = "ExecuteTo"]
              /\ th' = [th EXCEPT ![1] = [@ EXCEPT !.pc = "ExecuteTo",
                                                   !.r = cli.replacements, !.i = 0,
                                                   !.sink = <<>>, !.gets = <<>>]]
    /\ UNCHANGED <<data, pos, nodes, start, end, pstate, tmpl, perr, pool, lg, form>>

\* RunE after ExecuteTo has returned: the error, or fmt.Println(message) and the
\* return of nil. The body of "if cfg.ExecuteGit" is empty.
RunEPrint ==
    /\ cli.pc = "ExecuteTo"
    /\ th[1].pc = "done"
    /\ IF th[1].sinkErr # NilErr
         THEN cli' = Exit(cli, <<"failed to execute template">>)
         ELSE cli' = [cli EXCEPT !.pc = "PersistentPostRunE",
                                 !.stdout = Append(@, th[1].sink)]
    /\ UNCHANGED <<data, pos, nodes, start, end, pstate, tmpl, perr, pool, th, lg, form>>

\* PersistentPostRunE up to its call of git.ValidateGitState
PersistentPostRunE ==
    /\ cli.pc = "PersistentPostRunE"
    /\ IF ~cli.execute
         THEN cli' = Exit(cli, NoError)
         ELSE cli' = [cli EXCEPT !.pc = "IsGitRepository", !.within = "PostRunE"]
    /\ UNCHANGED <<data, pos, nodes, start, end, pstate, tmpl, perr, pool, th, lg, form>>

\* runGitCommand, or cmd.Run for the commit: what git was asked and what came of it
GitRun(c, cmd, msg, out) ==
    [c EXCEPT !.log = Append(@, [cmd |-> cmd, msg |-> msg, out |-> out,
                                 within |-> c.within])]

\* ValidateGitState returns err: PersistentPostRunE wraps it, Commit passes it on to
\* PersistentPostRunE, which wraps it
ValidateFails(c, err) ==
    IF c.within = "PostRunE"
      THEN Exit(c, <<"git validation failed", err>>)
      ELSE Exit(c, <<"failed to execute git commit", err>>)

IsGitRepository ==
    /\ cli.pc = "IsGitRepository"
    /\ \E out \in {"true", "error"} :
         LET c == GitRun(cli, "rev-parse --is-inside-work-tree", <<>>, out)
         IN IF out = "error"
              THEN cli' = ValidateFails(c, "not a git repository")
              ELSE cli' = [c EXCEPT !.pc = "HasStagedChanges"]
    /\ UNCHANGED <<data, pos, nodes, start, end, pstate, tmpl, perr, pool, th, lg, form>>

HasStagedChanges ==
    /\ cli.pc = "HasStagedChanges"
    /\ \E out \in {"files", "", "error"} :
         LET c == GitRun(cli, "diff --cached --name-only", <<>>, out)
         IN IF out = "error"
              THEN cli' = ValidateFails(c, "failed to check staged changes")
            ELSE IF out = ""
              THEN cli' = ValidateFails(c, "no staged changes to commit")
            ELSE cli' = [c EXCEPT !.pc = "HasUnstagedChanges"]
    /\ UNCHANGED <<data, pos, nodes, start, end, pstate, tmpl, perr, pool, th, lg, form>>

HasUnstagedChanges ==
    /\ cli.pc = "HasUnstagedChanges"
    /\ \E out \in {"files", "", "error"} :
         LET c == GitRun(cli, "diff --name-only", <<>>, out)
         IN IF out = "error"
              THEN cli' = ValidateFails(c, "failed to check unstaged changes")
            ELSE IF out # ""
              THEN cli' = ValidateFails(c, "you have unstaged changes")
            ELSE cli' = [c EXCEPT !.pc = "GetCurrentBranch"]
    /\ UNCHANGED <<data, pos, nodes, start, end, pstate, tmpl, perr, pool, th, lg, form>>

\* The last check of ValidateGitState, and its return of nil to PersistentPostRunE,
\* which goes on to call Commit, or to Commit, which goes on to run the commit
GetCurrentBranch ==
    /\ cli.pc = "GetCurrentBranch"
    /\ \E out \in {"main", "HEAD", "error"} :
         LET c == GitRun(cli, "rev-parse --abbrev-ref HEAD", <<>>, out)
         IN IF out = "error"
              THEN cli' = ValidateFails(c, "failed to get current branch")
            ELSE IF out = "HEAD"
              THEN cli' = ValidateFails(c, "detached HEAD state")
            ELSE IF c.within = "PostRunE"
              THEN cli' = [c EXCEPT !.pc = "Commit"]
            ELSE cli' = [c EXCEPT !.pc = "git commit"]
    /\ UNCHANGED <<data, pos, nodes, start, end, pstate, tmpl, perr, pool, th, lg, form>>

\* Mutant of Commit: the commit is run with no validation of its own
CommitSkipsValidation ==
    /\ cli.pc = "Commit"
    /\ cli' = [cli EXCEPT !.pc = "git commit", !.within = "Commit",
                          !.arg = cli.message]
    /\ UNCHANGED <<data, pos, nodes, start, end, pstate, tmpl, perr, pool, th, lg, form>>

\* PersistentPostRunE calls git.Commit(viper.GetString("message")), which calls
\* ValidateGitState first
Commit ==
    /\ cli.pc = "Commit"
    /\ cli' = [cli EXCEPT !.pc = "IsGitRepository", !.within = "Commit",
                          !.arg = cli.message]
    /\ UNCHANGED <<data, pos, nodes, start, end, pstate, tmpl, perr, pool, th, lg, form>>

\* Commit after ValidateGitState has returned nil: git commit -m message
GitCommit ==
    /\ cli.pc = "git commit"
    /\ \E out \in {"committed", "error"} :
         LET c == GitRun(cli, "commit -m", cli.arg, out)
         IN IF out = "error"
              THEN cli' = Exit(c, <<"failed to execute git commit", "git commit">>)
              ELSE cli' = Exit(c, NoError)
    /\ UNCHANGED <<data, pos, nodes, start, end, pstate, tmpl, perr, pool, th, lg, form>>

----------------------------------------------------------------------------
(* The bubble command: the interactive form and what becomes of its answers. *)
(* Styles, widths and the help texts are left out: nothing reads them back.  *)

FormOff ==
    [pc |-> "off", file |-> <<>>, opens |-> FALSE, execute |-> FALSE,
     staticTexts |-> <<>>, inputFields |-> <<>>, currentInputIndex |-> 0,
     isInputFocused |-> FALSE, replace |-> <<>>, width |-> 0, height |-> 0,
     ShowAll |-> FALSE, quitting |-> FALSE, footer |-> <<>>, keys |-> <<>>,
     message |-> <<>>, err |-> NoError]

\* The process as cobra enters the bubble command
BubbleStart(file, opens, execute) ==
    [FormOff EXCEPT !.pc = "RunE", !.file = file, !.opens = opens, !.execute = execute]

\* textinput.New with the Placeholder and, for a non-empty Default, the value set
NewInput(n) ==
    [Placeholder |-> n.Key,
     Value |-> IF n.Default # <<>> THEN n.Default ELSE <<>>,
     focus |-> FALSE]

\* The loop of initModel: acc is <<staticTexts, inputFields, text>>
RECURSIVE initModelLoop(_, _)
initModelLoop(ns, acc) ==
    IF ns = <<>> THEN acc
    ELSE LET n == Head(ns)
         IN IF n.type = "text"
              THEN initModelLoop(Tail(ns), [acc EXCEPT !.text = @ \o n.Text])
              ELSE initModelLoop(Tail(ns),
                     [staticTexts |-> Append(acc.staticTexts, acc.text),
                      inputFields |-> Append(acc.inputFields, NewInput(n)),
                      text |-> <<>>])

initModel(m, t, replace) ==
    LET built == initModelLoop(t.Nodes, [staticTexts |-> <<>>, inputFields |-> <<>>,
                                         text |-> <<>>])
    IN [m EXCEPT !.staticTexts = Append(built.staticTexts, built.text),
                 !.isInputFocused = FALSE,
                 !.inputFields = built.inputFields,
                 !.currentInputIndex = 0,
                 !.replace = replace]

\* The keys a message may be, and the window-size message
Runes == {"q", "h", "k", "j"}
Msgs == Runes \cup {"tab", "enter", "backspace", "WindowSizeMsg"}

ChangeStateKeys == {"tab"}
HelpKeys == {"h", "?"}
QuitKeys == {"q", "ctrl+c"}
ForwardKeys == {"up", "right", "k", "w"}
BackKeys == {"down", "left", "j", "s"}
EnterKeys == {"enter"}

\* The terminal's size in a window-size message
WindowWidth == 80
WindowHeight == 24

\* m.inputFields[m.currentInputIndex] is within the slice
IndexInRange(m) ==
    m.currentInputIndex >= 0 /\ m.currentInputIndex < Len(m.inputFields)

\* A run-time panic: index out of range, or integer divide by zero
Panic(m) == [m EXCEPT !.pc = "panic"]

\* textinput's Update of a field for a key: a focused field takes a rune at its
\* end and drops its last character on backspace; the cursor is never moved away
\* from the end by the keys of Msgs
textinputUpdate(f, msg) ==
    IF ~f.focus THEN f
    ELSE IF msg \in Runes THEN [f EXCEPT !.Value = Append(@, msg)]
    ELSE IF msg = "backspace" /\ f.Value # <<>>
      THEN [f EXCEPT !.Value = Slice(@, 0, Len(@) - 1)]
    ELSE f

\* The loop of the Enter case: every field with a value is put into replace
RECURSIVE enterLoop(_, _)
enterLoop(inputFields, replace) ==
    IF inputFields = <<>> THEN replace
    ELSE LET inputField == Head(inputFields)
         IN IF inputField.Value # <<>>
              THEN enterLoop(Tail(inputFields),
                             (inputField.Placeholder :> inputField.Value) @@ replace)
              ELSE enterLoop(Tail(inputFields), replace)

\* The switch of Update for a key the focused field did not take
UpdateSwitch(m, msg) ==
    LET cur == m.currentInputIndex + 1
        len == Len(m.inputFields)
    IN IF msg \in HelpKeys THEN [m EXCEPT !.ShowAll = ~@]
       ELSE IF msg \in QuitKeys THEN [m EXCEPT !.quitting = TRUE]
       ELSE IF msg \in ForwardKeys
         THEN IF ~IndexInRange(m) \/ len = 0 THEN Panic(m)
              ELSE LET next == (m.currentInputIndex + 1) % len
                   IN [m EXCEPT !.inputFields[cur].focus = FALSE,
                                !.currentInputIndex = next,
                                !.inputFields[next + 1].focus = TRUE]
       ELSE IF msg \in BackKeys
         THEN IF ~IndexInRange(m) \/ len = 0 THEN Panic(m)
              ELSE LET prev == (m.currentInputIndex - 1 + len) % len
                   IN [m EXCEPT !.inputFields[cur].focus = FALSE,
                                !.currentInputIndex = prev,
                                !.inputFields[prev + 1].focus = TRUE]
       ELSE IF msg \in EnterKeys
         THEN [m EXCEPT !.replace = enterLoop(m.inputFields, @), !.quitting = TRUE]
       ELSE m

\* Update for a key: the change of state on tab, then the focused field's own
\* update or else the switch
UpdateKeyMsg(m, msg) ==
    LET cur == m.currentInputIndex + 1
        toggled == IF msg \in ChangeStateKeys
                     THEN [m EXCEPT !.isInputFocused = ~@,
                                    !.inputFields[cur].focus = ~m.isInputFocused]
                     ELSE m
    IN IF msg \in ChangeStateKeys /\ ~IndexInRange(m) THEN Panic(m)
       ELSE IF toggled.isInputFocused
         THEN IF ~IndexInRange(toggled) THEN Panic(toggled)
              ELSE [toggled EXCEPT !.inputFields[cur] = textinputUpdate(@, msg)]
       ELSE UpdateSwitch(toggled, msg)

\* RunE of the bubble command up to its call of template.Parse
bubbleRunE ==
    /\ form.pc = "RunE"
    /\ IF form.opens
         THEN /\ form' = [form EXCEPT !.pc = "Parse"]
              /\ data' = form.file
              /\ pstate' = "parsing"
         ELSE /\ form' = [form EXCEPT !.pc = "exit",
                                      !.err = <<"failed to open template file">>]
              /\ UNCHANGED <<data, pstate>>
    /\ UNCHANGED <<pos, nodes, start, end, tmpl, perr, pool, th, lg, cli>>

\* RunE after template.Parse has returned: its error, or NewProgram with an
\* empty map and the start of the program, which renders the model first
NewProgram ==
    /\ form.pc = "Parse"
    /\ pstate \in {"ok", "err"}
    /\ IF pstate = "err"
         THEN form' = [form EXCEPT !.pc = "exit", !.err = <<"failed to parse template">>]
         ELSE form' = [initModel(form, tmpl, <<>>) EXCEPT !.pc = "View"]
    /\ UNCHANGED <<data, pos, nodes, start, end, pstate, tmpl, perr, pool, th, lg, cli>>

\* The program renders the model: footerView reads the current field's
\* Placeholder. After the render of a model that asked to quit, Run returns.
View ==
    /\ form.pc = "View"
    /\ IF ~IndexInRange(form)
         THEN form' = Panic(form)
         ELSE form' = [form EXCEPT
                         !.footer = form.inputFields[form.currentInputIndex + 1].Placeholder,
                         !.pc = IF form.quitting THEN "Execute" ELSE "Update"]
    /\ UNCHANGED <<data, pos, nodes, start, end, pstate, tmpl, perr, pool, th, lg, cli>>

\* The program hands the model one message; a render follows
Update ==
    /\ form.pc = "Update"
    /\ Len(form.keys) < MaxMsgs
    /\ \E msg \in Msgs :
         LET m == [form EXCEPT !.keys = Append(@, msg)]
             next == IF msg = "WindowSizeMsg"
                       THEN [m EXCEPT !.width = WindowWidth, !.height = WindowHeight]
                       ELSE UpdateKeyMsg(m, msg)
         IN form' = IF next.pc = "panic" THEN next ELSE [next EXCEPT !.pc = "View"]
    /\ UNCHANGED <<data, pos, nodes, start, end, pstate, tmpl, perr, pool, th, lg, cli>>

\* RunE after Run has returned: tmpl.Execute with the Replacer of the map
bubbleExecute ==
    /\ form.pc = "Execute"
    /\ form' = [form EXCEPT !.pc = "ExecuteDone"]
    /\ th' = [th EXCEPT ![1] = [@ EXCEPT !.pc = "Execute", !.r = form.replace, !.i = 0,
                                         !.out = <<>>, !.gets = <<>>]]
    /\ UNCHANGED <<data, pos, nodes, start, end, pstate, tmpl, perr, pool, lg, cli>>

\* RunE after Execute has returned: its error, or the message kept for the commit
bubbleReturn ==
    /\ form.pc = "ExecuteDone"
    /\ th[1].pc = "ExecuteDone"
    /\ IF th[1].gotErr # NilErr
         THEN form' = [form EXCEPT !.pc = "exit", !.err = <<"failed to execute template">>]
         ELSE form' = [form EXCEPT !.pc = "exit",
                                   !.message = IF form.execute THEN th[1].got ELSE @]
    /\ UNCHANGED <<data, pos, nodes, start, end, pstate, tmpl, perr, pool, th, lg, cli>>

----------------------------------------------------------------------------
(* Inputs *)

RECURSIVE Flatten(_)
Flatten(ss) == IF ss = <<>> THEN <<>> ELSE Head(ss) \o Flatten(Tail(ss))

RECURSIVE Join(_, _)
Join(ss, sep) ==
    IF Len(ss) = 1 THEN Head(ss) ELSE Head(ss) \o sep \o Join(Tail(ss), sep)

SeqsUpTo(S, n) == UNION {[1..m -> S] : m \in 0..n}

Maps(K, V) == UNION {[D -> V] : D \in SUBSET K}

keyK == <<"k">>
keyJ == <<"j">>
valA == <<"a">>
valB == <<"b">>
valC == <<"c">>

\* Pieces of template text: plain text, stray braces, whole and broken markers
Frags ==
    { valA, <<" ">>, <<"{">>, openMarker, closeMarker,
      openMarker \o <<".", "k">>,
      openMarker \o <<".", "k">> \o closeMarker,
      openMarker \o <<"k">> \o closeMarker,
      openMarker \o <<".", "j", ":", "a", "|", "@", "b">> \o closeMarker,
      openMarker \o <<" ", ".", "j", ":", "a", "|", "b", " ">> \o closeMarker }

Inputs == {Flatten(fs) : fs \in SeqsUpTo(Frags, MaxFrags)}

\* Marker bodies: sigil and key, then : and up to MaxParts parts
TokHeads == { <<".", "k">>, <<" ", ".", "k", " ">>, <<"k">> }

Parts == { valA, <<" ", "b", " ">>, <<"@", "a">>, <<"@", "b">>, <<"@">>, <<>> }

TokTails ==
    {<<>>} \cup {choiceSep \o Join(ps, choiceDelim) : ps \in SeqsUpTo(Parts, MaxParts) \ {<<>>}}

TokInputs == {openMarker \o h \o tl \o closeMarker : h \in TokHeads, tl \in TokTails}

ConcTemplates ==
    { valA \o openMarker \o <<".", "k">> \o closeMarker \o valB,
      openMarker \o <<".", "k", ":", "a", "|", "@", "b">> \o closeMarker
         \o openMarker \o <<".", "j">> \o closeMarker,
      openMarker \o <<".", "j", ":", "@", "c">> \o closeMarker \o valA
         \o openMarker \o <<".", "k", ":", "a", "|", "b">> \o closeMarker }

ParseInit ==
    /\ pos = 0
    /\ nodes = <<>>
    /\ start = 0
    /\ end = 0
    /\ pstate = "parsing"
    /\ tmpl = NilTemplate
    /\ perr = NilErr

Init ==
    /\ data \in Inputs
    /\ ParseInit
    /\ pool = Maps({keyK, keyJ}, {valA, valC})
    /\ th = [t \in 1..1 |-> ThreadInit]
    /\ lg = LegacyOff
    /\ cli = CliOff
    /\ form = FormOff

InitTok ==
    /\ data \in TokInputs
    /\ ParseInit
    /\ pool = Maps({keyK}, {valA, valB, valC, <<>>})
    /\ th = [t \in 1..1 |-> ThreadInit]
    /\ lg = LegacyOff
    /\ cli = CliOff
    /\ form = FormOff

InitConc ==
    /\ data \in ConcTemplates
    /\ ParseInit
    /\ pool = {<<>>, keyK :> valA, (keyK :> valB) @@ (keyJ :> valC)}
    /\ th = [t \in 1..NumCallers |-> ThreadInit]
    /\ lg = LegacyOff
    /\ cli = CliOff
    /\ form = FormOff

Next ==
    \/ ParseStep
    \/ \E t \in DOMAIN th : \E r \in pool : CallExecute(t, r)
    \/ \E t \in DOMAIN th : ExecuteStep(t)
    \/ \E t \in DOMAIN th : CallExecuteTo(t)
    \/ \E t \in DOMAIN th : ExecuteToStep(t)
    \/ \E t \in DOMAIN th : Finish(t)

Spec == Init /\ [][Next]_vars

SpecTok == InitTok /\ [][Next]_vars

SpecConc == InitConc /\ [][Next]_vars

\* Template texts for the legacy engine and the node-tree engine side by side
LegacyFrags ==
    { valA,
      openMarker,
      openMarker \o <<".", "k">> \o closeMarker,
      openMarker \o <<"k">> \o closeMarker,
      openMarker \o <<" ", ".", "k", " ">> \o closeMarker,
      openMarker \o <<".", "k", ":", "@">> \o closeMarker,
      openMarker \o <<".", "k", ":", "a", "|", "@", "b">> \o closeMarker,
      openMarker \o <<".", "j", ":", " ", "a", "|", "b">> \o closeMarker }

LegacyInputs == {Flatten(fs) : fs \in SeqsUpTo(LegacyFrags, MaxLegacyFrags)}

LegacyMaps ==
    { <<>>, keyK :> valA, keyK :> valB, (keyK :> valA) @@ (keyJ :> valA),
      (keyK :> valA) @@ (keyJ :> valC) }

\* main: a Template made by New, and a caller that may call Parse
InitLegacy ==
    /\ data = <<>>
    /\ ParseInit
    /\ pool = {}
    /\ th = [t \in 1..1 |-> ThreadInit]
    /\ \E content \in LegacyInputs, m \in LegacyMaps : lg = New(content, m)
    /\ cli = CliOff
    /\ form = FormOff

LegacyNext ==
    \/ LegacyParse
    \/ LegacySend
    \/ CallParse
    \/ ParseRecv

\* A goroutine that can send or receive does so: the scheduler leaves no runnable
\* goroutine waiting for ever. The caller need never call Parse.
SpecLegacy ==
    /\ InitLegacy
    /\ [][LegacyNext]_vars
    /\ WF_vars(LegacySend)
    /\ WF_vars(ParseRecv)

\* The same text and map given to both engines
InitBoth ==
    /\ \E content \in LegacyInputs, m \in LegacyMaps :
          /\ data = content
          /\ pool = {m}
          /\ lg = New(content, m)
    /\ ParseInit
    /\ th = [t \in 1..1 |-> ThreadInit]
    /\ cli = CliOff
    /\ form = FormOff

BothNext ==
    \/ ParseStep
    \/ \E t \in DOMAIN th : \E r \in pool : CallExecute(t, r)
    \/ \E t \in DOMAIN th : ExecuteStep(t)
    \/ LegacyParse
    \/ LegacySend

SpecBoth == InitBoth /\ [][BothNext]_vars

\* Template files and --replace values for the root command
CliFiles ==
    { valA,
      openMarker \o <<".", "k">> \o closeMarker,
      valC \o openMarker \o <<".", "k", ":", "a", "|", "@", "a">> \o closeMarker,
      openMarker \o <<"k">> \o closeMarker }

ReplaceFlags ==
    { <<"k", "=", "a">>, <<" ", "k", " ", "=", " ", "b">>, <<"j", "=", "a", "=", "c">>,
      <<"k">>, <<"=", "a">> }

InitCli ==
    /\ data = <<>>
    /\ pos = 0
    /\ nodes = <<>>
    /\ start = 0
    /\ end = 0
    /\ pstate = "unopened"
    /\ tmpl = NilTemplate
    /\ perr = NilErr
    /\ pool = {}
    /\ th = [t \in 1..1 |-> ThreadInit]
    /\ lg = LegacyOff
    /\ \E replaceFlags \in SeqsUpTo(ReplaceFlags, MaxReplaceFlags), execute \in BOOLEAN,
          file \in CliFiles, opens \in BOOLEAN :
            cli = RootStart(replaceFlags, execute, IF opens THEN file ELSE <<>>, opens)
    /\ form = FormOff

CliNext ==
    \/ PersistentPreRunE
    \/ RunE
    \/ ParseStep
    \/ processTemplate
    \/ ExecuteToStep(1)
    \/ RunEPrint
    \/ PersistentPostRunE
    \/ IsGitRepository
    \/ HasStagedChanges
    \/ HasUnstagedChanges
    \/ GetCurrentBranch
    \/ Commit
    \/ GitCommit

SpecCli == InitCli /\ [][CliNext]_vars

\* Template files for the bubble command
FormFiles ==
    { valA,
      openMarker \o <<".", "k">> \o closeMarker,
      valC \o openMarker \o <<".", "k", ":", "@", "b">> \o closeMarker,
      openMarker \o <<".", "k", ":", "a", "|", "@", "b">> \o closeMarker,
      openMarker \o <<".", "k", ":", "@", "a">> \o closeMarker
        \o openMarker \o <<".", "j", ":", "a", "|", "j">> \o closeMarker,
      openMarker \o <<".", "k", ":", "@", "a">> \o closeMarker
        \o openMarker \o <<".", "k", ":", "@", "b">> \o closeMarker,
      openMarker \o <<"k">> \o closeMarker }

InitForm ==
    /\ data = <<>>
    /\ pos = 0
    /\ nodes = <<>>
    /\ start = 0
    /\ end = 0
    /\ pstate = "unopened"
    /\ tmpl = NilTemplate
    /\ perr = NilErr
    /\ pool = {}
    /\ th = [t \in 1..1 |-> ThreadInit]
    /\ lg = LegacyOff
    /\ cli = CliOff
    /\ \E file \in FormFiles, opens \in BOOLEAN, execute \in BOOLEAN :
          form = BubbleStart(IF opens THEN file ELSE <<>>, opens, execute)

FormNext ==
    \/ bubbleRunE
    \/ ParseStep
    \/ NewProgram
    \/ View
    \/ Update
    \/ bubbleExecute
    \/ ExecuteStep(1)
    \/ bubbleReturn

SpecForm == InitForm /\ [][FormNext]_vars

----------------------------------------------------------------------------
(* Vocabulary of the properties *)

Callers == DOMAIN th

\* substr occurs in s at offset i
IsAt(s, substr, i) ==
    /\ i >= 0
    /\ i + Len(substr) <= Len(s)
    /\ \A n \in 1..Len(substr) : s[i + n] = substr[n]

Entries(list) == {list[n] : n \in 1..Len(list)}

\* Execute has returned to caller t
ExecuteReturned(t) == th[t].pc = "ExecuteDone"

\* ExecuteTo has returned to caller t
ExecuteToReturned(t) == th[t].pc = "done"

\* The parsed Template is the single variable node of a one-marker input
OneVar == pstate = "ok" /\ Len(tmpl.Nodes) = 1 /\ tmpl.Nodes[1].type = "var"

\* The text after the first ':' of the one marker of the input, and its parts
MarkerParams ==
    LET body == Slice(data, Len(openMarker), Len(data) - Len(closeMarker))
        first == CHOOSE i \in 0..Len(body) : IsAt(body, choiceSep, i)
                                               /\ \A n \in 0..(i - 1) : ~IsAt(body, choiceSep, n)
    IN Slice(body, first + 1, Len(body))

OrdinaryParts ==
    LET raw == Split(MarkerParams, choiceDelim)
    IN {TrimSpace(raw[n]) : n \in {m \in 1..Len(raw) : ~HasPrefix(TrimSpace(raw[m]), defPrefix)}}

\* What C1 says of a call that returned (ret, err) for the variable node v and Replacer r
ChoiceChecked(v, r, ret, err) ==
    IF r[v.Key] \in Entries(v.Choices)
      THEN err = NilErr /\ ret = r[v.Key]
      ELSE err = [kind |-> "InvalidValue", key |-> v.Key, val |-> r[v.Key],
                  choices |-> v.Choices]

C1_Case(t) ==
    /\ OneVar
    /\ tmpl.Nodes[1].Key \in DOMAIN th[t].r
    /\ Len(tmpl.Nodes[1].Choices) > 0

\* C1 (as stated): a found key with a non-empty allowed list renders to the found
\* value iff the value is one of the entries, else fails with InvalidValue carrying
\* key, value and allowed list; and that list never contains the @default value.
C1_AllowedNeverHoldsDefault ==
    \A t \in Callers :
        C1_Case(t) /\ (ExecuteReturned(t) \/ ExecuteToReturned(t)) =>
            LET v == tmpl.Nodes[1]
            IN /\ ExecuteReturned(t) => ChoiceChecked(v, th[t].r, th[t].got, th[t].gotErr)
               /\ ExecuteToReturned(t) => ChoiceChecked(v, th[t].r, th[t].sink, th[t].sinkErr)
               /\ v.HasDef => v.Default \notin Entries(v.Choices)

\* C1 (amended): as above, but of the allowed list: it is the node's list, each entry
\* of which is the trimmed text of a part of the marker that does not begin with '@'
\* (the @default part is never added to it; an ordinary part may still repeat its text).
C1_ChoiceValidation ==
    \A t \in Callers :
        C1_Case(t) /\ (ExecuteReturned(t) \/ ExecuteToReturned(t)) =>
            LET v == tmpl.Nodes[1]
            IN /\ ExecuteReturned(t) => ChoiceChecked(v, th[t].r, th[t].got, th[t].gotErr)
               /\ ExecuteToReturned(t) => ChoiceChecked(v, th[t].r, th[t].sink, th[t].sinkErr)
               /\ Entries(v.Choices) \subseteq OrdinaryParts

\* Reached: an InvalidValue failure for a marker that has a default and choices
C1_Witness ==
    \E t \in Callers :
        /\ C1_Case(t)
        /\ ExecuteToReturned(t)
        /\ tmpl.Nodes[1].HasDef
        /\ th[t].sinkErr.kind = "InvalidValue"
        /\ th[t].gotErr.kind = "InvalidValue"

\* C2: a key that is not found renders the default verbatim, whatever the allowed list
C2_DefaultBypassesChoices ==
    \A t \in Callers :
        OneVar /\ tmpl.Nodes[1].Key \notin DOMAIN th[t].r /\ tmpl.Nodes[1].HasDef =>
            /\ ExecuteReturned(t) => th[t].gotErr = NilErr /\ th[t].got = tmpl.Nodes[1].Default
            /\ ExecuteToReturned(t) =>
                  th[t].sinkErr = NilErr /\ th[t].sink = tmpl.Nodes[1].Default
            /\ th[t].gotErr.kind # "InvalidValue"
            /\ th[t].sinkErr.kind # "InvalidValue"

\* Reached: the default was emitted although the non-empty allowed list lacks it
C2_Witness ==
    \E t \in Callers :
        /\ OneVar
        /\ ExecuteToReturned(t)
        /\ tmpl.Nodes[1].Key \notin DOMAIN th[t].r
        /\ tmpl.Nodes[1].HasDef
        /\ Len(tmpl.Nodes[1].Choices) > 0
        /\ tmpl.Nodes[1].Default \notin Entries(tmpl.Nodes[1].Choices)
        /\ th[t].sink = tmpl.Nodes[1].Default
        /\ th[t].got = tmpl.Nodes[1].Default

\* The variable node whose key the Replacer lacks and that has no default
Unresolvable(n, r) == n.type = "var" /\ n.Key \notin DOMAIN r /\ ~n.HasDef

\* What C3 says of a call that stopped at node index i with error err
NoReplacementExactly(t, err) ==
    LET ns == tmpl.Nodes
        f == th[t].i + 1
    IN /\ err = NilErr => \A n \in 1..Len(ns) : ~Unresolvable(ns[n], th[t].r)
       /\ err # NilErr =>
             /\ f \in 1..Len(ns)
             /\ Unresolvable(ns[f], th[t].r) <=> err.kind = "NoReplacement"
             /\ Unresolvable(ns[f], th[t].r) =>
                   err = [kind |-> "NoReplacement", key |-> ns[f].Key]

\* C3: a variable node fails with NoReplacement carrying its key exactly when its key
\* is not found and it has no default; nothing else produces NoReplacement
C3_NoReplacementIffMissing ==
    /\ perr.kind # "NoReplacement"
    /\ \A t \in Callers :
          /\ ExecuteReturned(t) => NoReplacementExactly(t, th[t].gotErr)
          /\ ExecuteToReturned(t) => NoReplacementExactly(t, th[t].sinkErr)

\* Reached: a render failed with NoReplacement at a node that follows other nodes
C3_Witness ==
    \E t \in Callers :
        /\ ExecuteToReturned(t)
        /\ th[t].sinkErr.kind = "NoReplacement"
        /\ th[t].gotErr.kind = "NoReplacement"
        /\ th[t].i > 0

----------------------------------------------------------------------------
(* Markers of an input, stated on the text alone *)

NoneIn(s, substr, lo, hi) == \A n \in lo..(hi - 1) : ~IsAt(s, substr, n)

\* An opening marker at o that a closing marker follows
Closable(d, o) ==
    /\ IsAt(d, openMarker, o)
    /\ \E n \in (o + Len(openMarker))..Len(d) : IsAt(d, closeMarker, n)

\* The spans <<start, end>> of the closed markers from offset p on, left to right:
\* the first opening marker at or after p with the first closing marker behind it
RECURSIVE MarkersFrom(_, _)
MarkersFrom(d, p) ==
    IF \E o \in p..Len(d) : Closable(d, o)
      THEN LET o == CHOOSE x \in p..Len(d) : IsAt(d, openMarker, x)
                                               /\ NoneIn(d, openMarker, p, x)
               e == CHOOSE x \in (o + 2)..Len(d) : IsAt(d, closeMarker, x)
                                                     /\ NoneIn(d, closeMarker, o + 2, x)
           IN {<<o, e + 2>>} \cup MarkersFrom(d, e + 2)
      ELSE {}

MarkerBody(d, mk) == Slice(d, mk[1] + 2, mk[2] - 2)

\* The body does not start with '.' once leading whitespace is dropped
BadBody(body) ==
    ~ \E n \in 1..Len(body) : body[n] = "." /\ \A m \in 1..(n - 1) : body[m] \in WhiteSpace

BadMarkers == {mk \in MarkersFrom(data, 0) : BadBody(MarkerBody(data, mk))}

\* C4: parsing fails, with InvalidTokenSyntax, iff a closed marker has a bad body,
\* and a failed parse returns no Template
C4_ParseFailsIffBadMarker ==
    /\ pstate = "err" =>
          /\ tmpl = NilTemplate
          /\ \E mk \in BadMarkers :
                perr = [kind |-> "InvalidTokenSyntax", token |-> MarkerBody(data, mk)]
    /\ pstate = "ok" => BadMarkers = {} /\ perr = NilErr /\ tmpl = Template(nodes)
    /\ pstate = "parsing" => perr = NilErr /\ tmpl = NilTemplate

\* Reached: parsing failed after it had built a text node and a variable node
C4_Witness ==
    /\ pstate = "err"
    /\ \E n, m \in 1..Len(nodes) : nodes[n].type = "text" /\ nodes[m].type = "var"

EndsWith(s, suffix) ==
    Len(s) >= Len(suffix) /\ Slice(s, Len(s) - Len(suffix), Len(s)) = suffix

\* An opening marker at q with no closing marker anywhere after it
Unterminated(q) ==
    /\ IsAt(data, openMarker, q)
    /\ NoneIn(data, closeMarker, q + Len(openMarker), Len(data) + 1)

\* C5: the text from an unterminated opening marker on never makes parsing fail, ends
\* the parsed Template as literal text, never makes a render fail, and ends the
\* output of every render that succeeds
C5_UnterminatedIsLiteral ==
    \A q \in 0..Len(data) :
        Unterminated(q) =>
            LET tail == Slice(data, q, Len(data))
            IN /\ pstate = "err" => end <= q
               /\ pstate = "ok" =>
                     /\ Len(tmpl.Nodes) > 0
                     /\ tmpl.Nodes[Len(tmpl.Nodes)].type = "text"
                     /\ EndsWith(tmpl.Nodes[Len(tmpl.Nodes)].Text, tail)
               /\ \A t \in Callers :
                     /\ ExecuteReturned(t) =>
                           IF th[t].gotErr = NilErr THEN EndsWith(th[t].got, tail)
                           ELSE th[t].i + 1 < Len(tmpl.Nodes)
                     /\ ExecuteToReturned(t) =>
                           IF th[t].sinkErr = NilErr THEN EndsWith(th[t].sink, tail)
                           ELSE th[t].i + 1 < Len(tmpl.Nodes)

\* Reached: a Replacer that holds k rendered a marker and then the unterminated {{.k
C5_Witness ==
    \E t \in Callers :
        /\ ExecuteToReturned(t)
        /\ th[t].sinkErr = NilErr
        /\ <<"k">> \in DOMAIN th[t].r
        /\ Len(th[t].gets) > 0
        /\ \E q \in 0..Len(data) :
              Unterminated(q) /\ Slice(data, q, Len(data)) = <<"{", "{", ".", "k">>
        /\ EndsWith(th[t].sink, <<"{", "{", ".", "k">>)

NoClosedMarker == ~ \E o \in 0..Len(data) : Closable(data, o)

\* C6: a text without a closed marker parses, renders to itself, and the Replacer
\* is never asked
C6_PlainTextRoundTrip ==
    NoClosedMarker =>
        /\ pstate # "err"
        /\ \A t \in Callers :
              /\ th[t].gets = <<>>
              /\ ExecuteReturned(t) => th[t].gotErr = NilErr /\ th[t].got = data
              /\ ExecuteToReturned(t) => th[t].sinkErr = NilErr /\ th[t].sink = data

\* Reached: a text with a closing marker before an opening marker was rendered twice
C6_Witness ==
    /\ NoClosedMarker
    /\ \E o, e \in 0..Len(data) : IsAt(data, openMarker, o) /\ IsAt(data, closeMarker, e)
    /\ \E t \in Callers : ExecuteToReturned(t) /\ th[t].sink = data /\ th[t].got = data

\* C7: Execute and ExecuteTo into an empty sink succeed on the same inputs, with the
\* same output
C7_ExecuteAgreesWithExecuteTo ==
    \A t \in Callers :
        ExecuteToReturned(t) =>
            /\ th[t].gotErr = NilErr <=> th[t].sinkErr = NilErr
            /\ th[t].gotErr = NilErr => th[t].got = th[t].sink

\* Reached: both calls succeeded on a Template with a variable node and a text node
C7_Witness ==
    \E t \in Callers :
        /\ ExecuteToReturned(t)
        /\ th[t].gotErr = NilErr
        /\ th[t].sinkErr = NilErr
        /\ Len(th[t].gets) > 0
        /\ Len(tmpl.Nodes) > Len(th[t].gets)

\* The renderer's contract for one node: whether it fails, with what, and what it emits
NodeFails(n, r) ==
    /\ n.type = "var"
    /\ \/ n.Key \notin DOMAIN r /\ ~n.HasDef
       \/ n.Key \in DOMAIN r /\ Len(n.Choices) > 0 /\ r[n.Key] \notin Entries(n.Choices)

NodeError(n, r) ==
    IF n.Key \in DOMAIN r
      THEN [kind |-> "InvalidValue", key |-> n.Key, val |-> r[n.Key], choices |-> n.Choices]
      ELSE [kind |-> "NoReplacement", key |-> n.Key]

NodeText(n, r) ==
    IF n.type = "text" THEN n.Text
    ELSE IF n.Key \in DOMAIN r THEN r[n.Key] ELSE n.Default

RECURSIVE TextOf(_, _)
TextOf(ns, r) == IF ns = <<>> THEN <<>> ELSE NodeText(Head(ns), r) \o TextOf(Tail(ns), r)

RECURSIVE KeysOf(_)
KeysOf(ns) ==
    IF ns = <<>> THEN <<>>
    ELSE (IF Head(ns).type = "var" THEN <<Head(ns).Key>> ELSE <<>>) \o KeysOf(Tail(ns))

\* What C8 says of a call of caller t that returned err with buf written
StoppedAtFirstFailure(t, err, buf) ==
    LET ns == tmpl.Nodes
        f == th[t].i + 1
    IN err # NilErr =>
          /\ f \in 1..Len(ns)
          /\ NodeFails(ns[f], th[t].r)
          /\ \A n \in 1..(f - 1) : ~NodeFails(ns[n], th[t].r)
          /\ err = NodeError(ns[f], th[t].r)
          /\ th[t].gets = KeysOf(SubSeq(ns, 1, f))
          /\ buf = TextOf(SubSeq(ns, 1, f - 1), th[t].r)

\* C8: a render stops at the first failing node with that node's error, looks up and
\* writes nothing after it, leaves the earlier nodes' output in the sink of ExecuteTo,
\* and makes Execute return the empty string
C8_StopsAtFirstFailure ==
    \A t \in Callers :
        /\ ExecuteReturned(t) =>
              /\ StoppedAtFirstFailure(t, th[t].gotErr, th[t].out)
              /\ th[t].gotErr # NilErr => th[t].got = <<>>
        /\ ExecuteToReturned(t) => StoppedAtFirstFailure(t, th[t].sinkErr, th[t].sink)

\* Reached: ExecuteTo failed with output in the sink and a variable node still ahead
C8_Witness ==
    \E t \in Callers :
        /\ ExecuteToReturned(t)
        /\ th[t].sinkErr # NilErr
        /\ th[t].sink # <<>>
        /\ th[t].got = <<>>
        /\ \E n \in (th[t].i + 2)..Len(tmpl.Nodes) : tmpl.Nodes[n].type = "var"

\* Rendering the nodes ns alone with Replacer r: the output and the error
RECURSIVE Alone(_, _, _)
Alone(ns, r, w) ==
    IF ns = <<>> THEN [w |-> w, err |-> NilErr]
    ELSE IF NodeFails(Head(ns), r) THEN [w |-> w, err |-> NodeError(Head(ns), r)]
    ELSE Alone(Tail(ns), r, w \o NodeText(Head(ns), r))

\* Each caller's results are those of rendering the nodes ParseString built, alone
IsolatedResults ==
    \A t \in Callers :
        LET alone == Alone(nodes, th[t].r, <<>>)
        IN /\ ExecuteReturned(t) =>
                 /\ th[t].gotErr = alone.err
                 /\ th[t].got = IF alone.err = NilErr THEN alone.w ELSE <<>>
           /\ ExecuteToReturned(t) =>
                 /\ th[t].sinkErr = alone.err
                 /\ th[t].sink = alone.w
                 /\ th[t].gotErr = alone.err

\* C9: under every interleaving of concurrent callers each result is that of the
\* render alone, and no step changes the Template once ParseString has returned it
C9_ConcurrentRendersIsolated ==
    /\ []IsolatedResults
    /\ [][tmpl # NilTemplate => tmpl' = tmpl]_vars

\* Reached: one caller has its result while another, with another Replacer, is
\* in the middle of its loop, whose result alone differs
C9_Witness ==
    \E t, u \in Callers :
        /\ t # u
        /\ ExecuteToReturned(t)
        /\ th[t].sinkErr = NilErr
        /\ th[u].pc \in {"Execute", "ExecuteTo"}
        /\ th[u].i > 0
        /\ th[u].i < Len(tmpl.Nodes)
        /\ th[u].r # th[t].r
        /\ Alone(nodes, th[u].r, <<>>) # Alone(nodes, th[t].r, <<>>)

\* C10: a scan step that finds a marker takes the first opening marker at or after
\* pos and the first closing marker behind it, and parsing goes on right after it;
\* a scan step that finds none had no closed marker left
C10_ScannerNeverNests ==
    [][ pstate = "parsing" =>
          /\ (pos' # pos \/ pstate' = "err") =>
                /\ pos <= start'
                /\ IsAt(data, openMarker, start')
                /\ NoneIn(data, openMarker, pos, start')
                /\ start' + Len(openMarker) <= end' - Len(closeMarker)
                /\ IsAt(data, closeMarker, end' - Len(closeMarker))
                /\ NoneIn(data, closeMarker, start' + Len(openMarker), end' - Len(closeMarker))
                /\ pstate' = "parsing" => pos' = end'
          /\ pstate' = "ok" => ~ \E o \in pos..Len(data) : Closable(data, o)
      ]_vars

\* Reached: a marker was closed although its body holds another opening marker, and
\* parsing went on behind it
C10_Witness ==
    /\ pstate = "parsing"
    /\ end > 0
    /\ pos = end
    /\ \E n \in (start + 2)..(end - 4) : IsAt(data, openMarker, n)

----------------------------------------------------------------------------
(* The parts of a marker, stated on the text alone *)

\* The body of the one marker of the input has a ':'
HasParams ==
    LET body == Slice(data, Len(openMarker), Len(data) - Len(closeMarker))
    IN \E i \in 0..Len(body) : IsAt(body, choiceSep, i)

Bars(s) == {i \in 1..Len(s) : s[i] = "|"}

NthBar(s, n) == CHOOSE i \in Bars(s) : Cardinality({x \in Bars(s) : x <= i}) = n

NumParts(s) == Cardinality(Bars(s)) + 1

\* The text between the (n-1)th and the nth '|' of s
PartAt(s, n) ==
    LET lo == IF n = 1 THEN 0 ELSE NthBar(s, n - 1)
        hi == IF n = NumParts(s) THEN Len(s) + 1 ELSE NthBar(s, n)
    IN SubSeq(s, lo + 1, hi - 1)

TrimmedParts(s) == [n \in 1..NumParts(s) |-> TrimSpace(PartAt(s, n))]

IsDefaultPart(p) == p # <<>> /\ p[1] = "@"

IsChoicePart(p) == ~IsDefaultPart(p)

DefaultParts(ps) == {n \in 1..Len(ps) : IsDefaultPart(ps[n])}

\* C11: with a ':' in the marker body, the default is the last trimmed part that
\* begins with '@', without the '@', and the allowed list is the other trimmed
\* parts in their order, duplicates and empty parts included
C11_PartsInOrderLastDefaultWins ==
    OneVar /\ HasParams =>
        LET ps == TrimmedParts(MarkerParams)
            ds == DefaultParts(ps)
            v == tmpl.Nodes[1]
        IN /\ v.Choices = SelectSeq(ps, IsChoicePart)
           /\ v.HasDef <=> ds # {}
           /\ ds # {} => v.Default = Tail(ps[CHOOSE n \in ds : \A m \in ds : m <= n])
           /\ ds = {} => v.Default = <<>>

\* Reached: a marker with two different '@' parts and an empty part between them
C11_Witness ==
    /\ OneVar
    /\ HasParams
    /\ LET ps == TrimmedParts(MarkerParams)
       IN /\ \E n, m \in DefaultParts(ps) : n < m /\ ps[n] # ps[m]
                                              /\ tmpl.Nodes[1].Default = Tail(ps[m])
          /\ <<>> \in Entries(tmpl.Nodes[1].Choices)

\* The one marker of the input has the form {{.k:@}}
EmptyDefaultMarker == HasParams /\ TrimSpace(MarkerParams) = defPrefix

\* C12: the marker {{.k:@}} parses to a node with a present, empty default, and a
\* render without k emits the empty string and does not fail
C12_EmptyDefaultIsPresent ==
    OneVar /\ EmptyDefaultMarker =>
        /\ tmpl.Nodes[1].HasDef
        /\ tmpl.Nodes[1].Default = <<>>
        /\ \A t \in Callers :
              tmpl.Nodes[1].Key \notin DOMAIN th[t].r =>
                  /\ ExecuteReturned(t) => th[t].gotErr = NilErr /\ th[t].got = <<>>
                  /\ ExecuteToReturned(t) => th[t].sinkErr = NilErr /\ th[t].sink = <<>>

\* Reached: {{.k:@}} was rendered by both calls with a Replacer that lacks k
C12_Witness ==
    /\ OneVar
    /\ EmptyDefaultMarker
    /\ \E t \in Callers :
          /\ ExecuteToReturned(t)
          /\ tmpl.Nodes[1].Key \notin DOMAIN th[t].r
          /\ th[t].sinkErr = NilErr
          /\ th[t].gotErr = NilErr

----------------------------------------------------------------------------
(* The two engines on one input *)

\* The legacy task has either panicked or has its result
LegacyDecided == lg.task \in {"send", "done", "panicked"}

LegacyPanicked == lg.task = "panicked"

\* The node-tree engine's parse has failed, or its Execute has returned
NodeTreeDecided == pstate = "err" \/ ExecuteReturned(1)

NodeTreeErred == pstate = "err" \/ (ExecuteReturned(1) /\ th[1].gotErr # NilErr)

\* C13: for every template text and map, the legacy background render panics
\* if and only if the node-tree engine's parse and render of the same text and
\* map returns an error.
C13_LegacyPanicsIffNodeTreeErrs ==
    (LegacyDecided /\ NodeTreeDecided) => (LegacyPanicked <=> NodeTreeErred)

----------------------------------------------------------------------------
(* The legacy Template's channel *)

\* What the substitution makes of the Template's content and map
LegacyRendered == ReplaceAllFunc(lg.content, 0, lg.replacements).out

\* The first call of Parse has returned
FirstParseReturned == Len(lg.readers) >= 1

\* The task has sent its result
LegacySent == lg.task = "done"

\* C14: Parse never returns before the background task has sent its result, the
\* reader the first Parse returns is over exactly the rendered bytes, and when
\* the task has finished without a fault a first call of Parse eventually returns.
C14_ParseWaitsForRender ==
    /\ [](FirstParseReturned => LegacySent /\ lg.readers[1] = LegacyRendered)
    /\ ((LegacySent /\ lg.calls >= 1) ~> FirstParseReturned)

\* The first Parse has returned bytes in which a placeholder was substituted
C14_Witness ==
    /\ FirstParseReturned
    /\ lg.readers[1] = LegacyRendered
    /\ lg.readers[1] # lg.content
    /\ lg.readers[1] # <<>>

\* The caller is in Parse with nothing in the channel and nothing left to be sent
ParseStuck == lg.caller = "recv" /\ LegacySent /\ lg.rendered = <<>>

\* The task is at its send with the channel full
SendStuck == lg.task = "send" /\ Len(lg.rendered) >= RenderedCap

\* C19: each Template delivers its result at most once, the task's send on the
\* channel never blocks, and no call of Parse on a Template whose render did not
\* fault, a second call included, is left waiting for ever.
C19_NoParticipantBlocked ==
    /\ Len(lg.readers) <= 1
    /\ ~SendStuck
    /\ ~ParseStuck

----------------------------------------------------------------------------
(* The root command's commit *)

\* The entries of the git log that ran git commit
CommitsRun == {i \in 1..Len(cli.log) : cli.log[i].cmd = "commit -m"}

\* RunE has printed the message it generated
MessagePrinted == cli.stdout # <<>>

\* C15: when the root command is run with --execute and the template is
\* processed, the git commit of the post-run hook is given the message that the
\* run generated and printed.
C15_CommitUsesGeneratedMessage ==
    \A i \in CommitsRun :
        MessagePrinted /\ cli.log[i].msg = cli.stdout[Len(cli.stdout)]

\* What git ran on behalf of Commit, in the order it ran
CommitLog == SelectSeq(cli.log, LAMBDA e : e.within = "Commit")

\* What Commit asks of git: ValidateGitState's four checks, then the commit
CommitOrder ==
    << "rev-parse --is-inside-work-tree", "diff --cached --name-only",
       "diff --name-only", "rev-parse --abbrev-ref HEAD", "commit -m" >>

\* The check e passed: inside a work tree, something staged, nothing unstaged, on
\* a branch
CheckPassed(e) ==
    \/ e.cmd = "rev-parse --is-inside-work-tree" /\ e.out = "true"
    \/ e.cmd = "diff --cached --name-only" /\ e.out = "files"
    \/ e.cmd = "diff --name-only" /\ e.out = ""
    \/ e.cmd = "rev-parse --abbrev-ref HEAD" /\ e.out = "main"

\* The error ValidateGitState gives for the failed check e
CheckError(e) ==
    IF e.cmd = "rev-parse --is-inside-work-tree" THEN "not a git repository"
    ELSE IF e.cmd = "diff --cached --name-only"
      THEN IF e.out = "error" THEN "failed to check staged changes"
           ELSE "no staged changes to commit"
    ELSE IF e.cmd = "diff --name-only"
      THEN IF e.out = "error" THEN "failed to check unstaged changes"
           ELSE "you have unstaged changes"
    ELSE IF e.out = "error" THEN "failed to get current branch"
    ELSE "detached HEAD state"

\* C16: Commit runs the checks inside-work-tree, has-staged-changes,
\* no-unstaged-changes and not-detached-HEAD in that order and git commit only
\* after all four have passed; a failing check is the last thing Commit runs, and
\* its error is what Commit returns.
C16_CommitValidatesFirst ==
    /\ Len(CommitLog) <= Len(CommitOrder)
    /\ \A i \in 1..Len(CommitLog) : CommitLog[i].cmd = CommitOrder[i]
    /\ \A i \in 1..(Len(CommitLog) - 1) : CheckPassed(CommitLog[i])
    /\ \A i \in 1..Len(CommitLog) :
         (CommitLog[i].cmd # "commit -m" /\ ~CheckPassed(CommitLog[i]))
            => /\ cli.pc = "exit"
               /\ cli.err = <<"failed to execute git commit", CheckError(CommitLog[i])>>

\* Commit has run git commit, after its own four checks
C16_Witness ==
    /\ Len(CommitLog) = Len(CommitOrder)
    /\ CommitLog[Len(CommitLog)].cmd = "commit -m"
    /\ CommitLog[Len(CommitLog)].out = "committed"

----------------------------------------------------------------------------
(* The interactive form *)

\* What rendering the nodes ns against the source r gives: the output, or the
\* first error
RECURSIVE RenderOf(_, _, _)
RenderOf(ns, w, r) ==
    IF ns = <<>> THEN [out |-> w, err |-> NilErr]
    ELSE LET res == WriteTo(Head(ns), w, r)
         IN IF res.err # NilErr THEN [out |-> <<>>, err |-> res.err]
            ELSE RenderOf(Tail(ns), res.w, r)

\* The user pressed Enter, and nothing else, once the form was open
EnterAtOnce == form.keys = <<"enter">>

\* The bubble command's Execute of the collected map has returned
FormRendered == form.pc \in {"ExecuteDone", "exit"} /\ ExecuteReturned(1)

\* C17: when the user presses Enter right after the form opens, rendering the
\* Template against the collected map gives the same output, or the same error,
\* as rendering it against an empty source.
C17_EnterAtOnceIsEmptySource ==
    (EnterAtOnce /\ FormRendered)
        => /\ th[1].got = RenderOf(tmpl.Nodes, <<>>, <<>>).out
           /\ th[1].gotErr = RenderOf(tmpl.Nodes, <<>>, <<>>).err

\* The form is about to read or has just failed to read the current field
FormUsesIndex == form.pc \in {"View", "Update", "panic"}

\* C18: whenever the form uses currentInputIndex it is a valid index into
\* inputFields, for every parsed Template, one with no variable node included,
\* so that no render and no key ends in a run-time panic.
C18_IndexAlwaysValid ==
    FormUsesIndex => (IndexInRange(form) /\ form.pc # "panic")

====
